---- MODULE Spec2Model ----
(***************************************************************************)
(* bsp2minimap (src/src/lib.rs): conversion of a parsed Quake level into a *)
(* flat SVG depiction.                                                     *)
(*                                                                         *)
(* Conventions of the model                                                *)
(*  - an f32 is an integer, or NaN; the integers used are small, so every  *)
(*    f32 operation the code performs on them is exact.  Signed zero and   *)
(*    the infinities are not modelled.                                     *)
(*  - a String is a sequence of one-character strings, so that equality,   *)
(*    substring search and hex formatting are computed, not assumed.       *)
(*  - indices are 1-based (Rust's index i is the model's i + 1).           *)
(*  - a Face carries its edge_list_index, the ordered vertex-index list    *)
(*    the level parser's helper returns for it (vidx) and the index of its *)
(*    texture (tex).  In the file format the vertex list of a face is the  *)
(*    run of edges starting at edge_list_index, so two faces that share    *)
(*    an edge_list_index have vertex lists one of which is a prefix of the *)
(*    other (WellFormedFaces).                                             *)
(***************************************************************************)
EXTENDS Integers, Sequences, FiniteSets, TLC

VARIABLES
    pc,                 \* position of the running operation
    outcome,            \* "running", "Ok", "ParseError", "TextureFetchError", "SaveError", "panic"
    axis,               \* the ProjectionAxis in use
    bsp,                \* the level: [vertices, faces, textures]
    parses,             \* whether BspFile::parse returned a level
    pvertices,          \* convert: projected vertices
    images,             \* convert: what read_texture_image returned, texture by texture
    color_per_tex_name, \* convert: the color table (a function on names)
    filtered,           \* what filter_faces returned
    ordered,            \* what filter_and_sort_faces returned
    stuff_to_draw,      \* convert: the StuffToDraw items
    polygons,           \* convert: the polygons of the group bsp_ref
    doc,                \* convert: the svg Document
    saved,              \* whether svg::save wrote the document
    name,               \* is_ignored_texture: its argument
    ignored             \* is_ignored_texture: its result

vars == <<pc, outcome, axis, bsp, parses, pvertices, images, color_per_tex_name,
          filtered, ordered, stuff_to_draw, polygons, doc, saved, name, ignored>>

-----------------------------------------------------------------------------
(* Bounds *)

MaxFaces == 3
MaxConvertFaces == 2
MaxTexels == 3
MaxAffix == 1

-----------------------------------------------------------------------------
(* f32 *)

NaN == 9999

IsNaN(a) == a = NaN

\* -a
FNeg(a) == IF IsNaN(a) THEN NaN ELSE 0 - a

\* a - b, a + b, a * b
FSub(a, b) == IF IsNaN(a) \/ IsNaN(b) THEN NaN ELSE a - b
FAdd(a, b) == IF IsNaN(a) \/ IsNaN(b) THEN NaN ELSE a + b
FMul(a, b) == IF IsNaN(a) \/ IsNaN(b) THEN NaN ELSE a * b

\* f32::min, f32::max: a NaN operand is ignored when the other is a number
f32_min(a, b) == IF IsNaN(a) THEN b ELSE IF IsNaN(b) THEN a ELSE IF a <= b THEN a ELSE b
f32_max(a, b) == IF IsNaN(a) THEN b ELSE IF IsNaN(b) THEN a ELSE IF a >= b THEN a ELSE b

\* f32::partial_cmp: None when either operand is NaN
partial_cmp(a, b) ==
    IF IsNaN(a) \/ IsNaN(b) THEN "None"
    ELSE IF a < b THEN "Less"
    ELSE IF a = b THEN "Equal"
    ELSE "Greater"

\* Iterator::reduce(f) over a sequence: None (ok = FALSE) when it is empty
RECURSIVE fold_from(_, _, _, _)
fold_from(s, i, acc, minimum) ==
    IF i > Len(s) THEN acc
    ELSE fold_from(s, i + 1,
                   IF minimum THEN f32_min(acc, s[i]) ELSE f32_max(acc, s[i]),
                   minimum)

reduce_min(s) ==
    IF Len(s) = 0 THEN [some |-> FALSE, v |-> 0]
    ELSE [some |-> TRUE, v |-> fold_from(s, 2, s[1], TRUE)]

reduce_max(s) ==
    IF Len(s) = 0 THEN [some |-> FALSE, v |-> 0]
    ELSE [some |-> TRUE, v |-> fold_from(s, 2, s[1], FALSE)]

-----------------------------------------------------------------------------
(* Strings *)

clip == <<"c", "l", "i", "p">>
hint == <<"h", "i", "n", "t">>
trigger == <<"t", "r", "i", "g", "g", "e", "r">>
n163 == <<"1", "6", "3">>
sky == <<"s", "k", "y">>
light == <<"l", "i", "g", "h", "t">>
tech == <<"t", "e", "c", "h">>
wood == <<"w", "o", "o", "d">>

\* str::contains(needle): a scan over the start positions
RECURSIVE contains_from(_, _, _)
contains_from(s, needle, i) ==
    IF i + Len(needle) - 1 > Len(s) THEN FALSE
    ELSE IF SubSeq(s, i, i + Len(needle) - 1) = needle THEN TRUE
    ELSE contains_from(s, needle, i + 1)

\* str::starts_with in the place of str::contains
contains_at_start_only(s, needle) ==
    Len(needle) <= Len(s) /\ SubSeq(s, 1, Len(needle)) = needle

contains(s, needle) == contains_from(s, needle, 1)

\* iter().any(p) over an array
RECURSIVE any_from(_, _, _, _)
any_from(arr, i, s, exact) ==
    IF i > Len(arr) THEN FALSE
    ELSE IF (IF exact THEN arr[i] = s ELSE contains(s, arr[i])) THEN TRUE
    ELSE any_from(arr, i + 1, s, exact)

ignored_names == <<clip, hint, trigger, n163>>
ignored_needles == <<sky, light, tech, wood>>

is_ignored_texture(n) ==
    IF any_from(ignored_names, 1, n, TRUE) THEN TRUE
    ELSE any_from(ignored_needles, 1, n, FALSE)

-----------------------------------------------------------------------------
(* The level and the parser's helpers *)

Axes == {"X", "Y", "Z"}

NoLevel == [vertices |-> <<>>, faces |-> <<>>, textures |-> <<>>]

get_face_texture(b, face) == b.textures[face.tex]

get_face_vertice_indexes(b, face) == face.vidx

get_face_vertices(b, face) ==
    [i \in 1..Len(face.vidx) |-> b.vertices[face.vidx[i]]]

\* the coordinate of a vertex along an axis
coord(v, ax) == IF ax = "X" THEN v.x ELSE IF ax = "Y" THEN v.y ELSE v.z

map_coord(vs, ax) == [i \in 1..Len(vs) |-> coord(vs[i], ax)]

-----------------------------------------------------------------------------
(* filter_faces, filter_and_sort_faces *)

RECURSIVE filter_from(_, _)
filter_from(b, i) ==
    IF i > Len(b.faces) THEN <<>>
    ELSE IF ~is_ignored_texture(get_face_texture(b, b.faces[i]).name)
         THEN <<b.faces[i]>> \o filter_from(b, i + 1)
         ELSE filter_from(b, i + 1)

\* filter_faces without its filter
filter_faces_keeps_all(b) == b.faces

filter_faces(b) == filter_from(b, 1)

\* the Option the match at lines 191-195 yields for one face
face_min(b, face, ax) == reduce_min(map_coord(get_face_vertices(b, face), ax))

\* the loop filling `minimums`: ok = FALSE when an unwrap of None panics;
\* a later face with the same edge_list_index overwrites the entry
RECURSIVE minimums_from(_, _, _, _, _)
minimums_from(b, fs, ax, i, result) ==
    IF i > Len(fs) THEN [ok |-> TRUE, map |-> result]
    ELSE LET m == face_min(b, fs[i], ax)
             k == fs[i].edge_list_index
         IN  IF ~m.some THEN [ok |-> FALSE, map |-> result]
             ELSE minimums_from(b, fs, ax, i + 1,
                      [j \in DOMAIN result \cup {k} |->
                          IF j = k THEN m.v ELSE result[j]])

minimums_of(b, fs, ax) == minimums_from(b, fs, ax, 1, <<>>)

\* the comparator given to sort_by, before its unwrap
compare_faces(minimums, a, b) ==
    partial_cmp(minimums[a.edge_list_index], minimums[b.edge_list_index])

\* slice::sort_by on a short slice: a stable insertion sort; element j moves
\* left while the comparator says Less against its left neighbour.  ok = FALSE
\* when the comparator's unwrap panics.
RECURSIVE insert_tail(_, _, _)
insert_tail(v, j, minimums) ==
    IF j = 1 THEN [ok |-> TRUE, v |-> v]
    ELSE LET c == compare_faces(minimums, v[j], v[j - 1])
         IN  IF c = "None" THEN [ok |-> FALSE, v |-> v]
             ELSE IF c = "Less"
                  THEN insert_tail([v EXCEPT ![j] = v[j - 1], ![j - 1] = v[j]],
                                   j - 1, minimums)
                  ELSE [ok |-> TRUE, v |-> v]

RECURSIVE sort_from(_, _, _)
sort_from(v, i, minimums) ==
    IF i > Len(v) THEN [ok |-> TRUE, v |-> v]
    ELSE LET r == insert_tail(v, i, minimums)
         IN  IF ~r.ok THEN r ELSE sort_from(r.v, i + 1, minimums)

sort_by(v, minimums) == sort_from(v, 2, minimums)

\* filter_and_sort_faces: [ok, faces]; ok = FALSE is a panic
filter_and_sort_faces(b, ax) ==
    LET faces == filter_faces(b)
        mins == minimums_of(b, faces, ax)
    IN  IF ~mins.ok THEN [ok |-> FALSE, faces |-> <<>>]
        ELSE LET s == sort_by(faces, mins.map)
             IN  IF ~s.ok THEN [ok |-> FALSE, faces |-> <<>>]
                 ELSE [ok |-> TRUE, faces |-> s.v]

-----------------------------------------------------------------------------
(* convert: its steps as functions *)

padding == 100

\* the projection without the flip of y for the axis Z
project_vertex_unflipped(v, ax) ==
    IF ax = "X" THEN <<v.y, v.z>>
    ELSE IF ax = "Y" THEN <<v.x, v.z>>
    ELSE <<v.x, v.y>>

\* lines 35-39: one vertex onto the plane of the axis
project_vertex(v, ax) ==
    IF ax = "X" THEN <<v.y, v.z>>
    ELSE IF ax = "Y" THEN <<v.x, v.z>>
    ELSE <<v.x, FNeg(v.y)>>

project(vs, ax) == [i \in 1..Len(vs) |-> project_vertex(vs[i], ax)]

\* lines 49-62: one channel (c = 1, 2, 3) of the average color of a raster.
\* The loop adds the channel of the Len(data) / 3 whole texels; the divisor is
\* Len(data) as f32 / 3.0; `as u32` truncates, and turns NaN (0.0 / 0.0) into 0.
RECURSIVE channel_sum(_, _, _)
channel_sum(data, c, i) ==
    IF i >= Len(data) \div 3 THEN 0
    ELSE data[i * 3 + c] + channel_sum(data, c, i + 1)

\* the mean rounded to the nearest integer in the place of truncated
average_channel_rounded(data, c) ==
    IF Len(data) = 0 THEN 0
    ELSE (6 * channel_sum(data, c, 0) + Len(data)) \div (2 * Len(data))

average_channel(data, c) ==
    IF Len(data) = 0 THEN 0
    ELSE (3 * channel_sum(data, c, 0)) \div Len(data)

average_color(data) ==
    <<average_channel(data, 1), average_channel(data, 2), average_channel(data, 3)>>

\* HashMap::insert
insert(map, k, v) == [j \in DOMAIN map \cup {k} |-> IF j = k THEN v ELSE map[j]]

\* lines 69-93: the StuffToDraw items of the ordered faces; ok = FALSE when an
\* unwrap of an empty reduction panics.  Items without points are skipped.
make_stuff(b, face, pv) ==
    LET idx == get_face_vertice_indexes(b, face)
        vs == get_face_vertices(b, face)
        zs == [i \in 1..Len(vs) |-> vs[i].z]
    IN  [ok |-> reduce_max(zs).some /\ reduce_min(zs).some,
         item |-> [points |-> [j \in 1..Len(idx) |-> pv[idx[j]]],
                   texture_name |-> get_face_texture(b, face).name,
                   max_z |-> reduce_max(zs).v,
                   min_z |-> reduce_min(zs).v]]

RECURSIVE stuff_from(_, _, _, _)
stuff_from(b, faces, pv, i) ==
    IF i > Len(faces) THEN [ok |-> TRUE, items |-> <<>>]
    ELSE LET m == make_stuff(b, faces[i], pv)
         IN  IF ~m.ok THEN [ok |-> FALSE, items |-> <<>>]
             ELSE LET rest == stuff_from(b, faces, pv, i + 1)
                  IN  IF ~rest.ok THEN rest
                      ELSE IF Len(m.item.points) # 0
                           THEN [ok |-> TRUE, items |-> <<m.item>> \o rest.items]
                           ELSE rest

build_stuff(b, faces, pv) == stuff_from(b, faces, pv, 1)

\* lines 114-117: "#{:02x}{:02x}{:02x}"
HexChars == <<"0", "1", "2", "3", "4", "5", "6", "7", "8", "9", "a", "b", "c", "d", "e", "f">>

RECURSIVE lower_hex(_)
lower_hex(n) ==
    IF n < 16 THEN <<HexChars[n + 1]>>
    ELSE lower_hex(n \div 16) \o <<HexChars[(n % 16) + 1]>>

\* {:02x}: at least two digits, padded with zeros
format_02x(n) == IF Len(lower_hex(n)) < 2 THEN <<"0">> \o lower_hex(n) ELSE lower_hex(n)

\* the fill with black in the place of white for a missing entry
fill_color_missing_black(table, texture_name) ==
    LET c == IF texture_name \in DOMAIN table THEN table[texture_name] ELSE <<0, 0, 0>>
    IN  <<"#">> \o format_02x(c[1]) \o format_02x(c[2]) \o format_02x(c[3])

\* lines 109-117: the fill of an item
fill_color(table, texture_name) ==
    LET c == IF texture_name \in DOMAIN table THEN table[texture_name] ELSE <<255, 255, 255>>
    IN  <<"#">> \o format_02x(c[1]) \o format_02x(c[2]) \o format_02x(c[3])

\* lines 101-124: the polygons added to the group, in the items' order.  The
\* points attribute keeps the points as numbers (their text is not modelled).
draw_polygons(items, table) ==
    [i \in 1..Len(items) |->
        [points |-> items[i].points, fill |-> fill_color(table, items[i].texture_name)]]

\* lines 127-132: ok = FALSE when there is no projected vertex (unwrap of None)
compute_bounds(pv) ==
    LET us == [i \in 1..Len(pv) |-> pv[i][1]]
        ws == [i \in 1..Len(pv) |-> pv[i][2]]
    IN  [ok |-> Len(pv) # 0,
         b |-> <<reduce_min(us).v, reduce_max(us).v, reduce_min(ws).v, reduce_max(ws).v>>]

\* the viewBox with the padding added once to the width and the height
viewbox_padded_once(b) ==
    <<FSub(b[1], padding),
      FSub(b[3], padding),
      FAdd(FSub(b[2], b[1]), padding),
      FAdd(FSub(b[4], b[3]), padding)>>

\* lines 134-139
viewbox_of(b) ==
    <<FSub(b[1], padding),
      FSub(b[3], padding),
      FAdd(FSub(b[2], b[1]), FMul(2, padding)),
      FAdd(FSub(b[4], b[3]), FMul(2, padding))>>

\* lines 141-170
compose(viewbox, group) ==
    [viewBox |-> viewbox,
     rect |-> [x |-> viewbox[1], y |-> viewbox[2],
               width |-> viewbox[3], height |-> viewbox[4], fill |-> "black"],
     defs |-> group,
     uses |-> <<"#bsp_ref", "#bsp_ref">>]

NoDoc == compose(<<0, 0, 0, 0>>, <<>>)

-----------------------------------------------------------------------------
(* Inputs *)

wall == <<"w", "a", "l", "l">>
sky1 == <<"s", "k", "y", "1">>

Vertex(x, y, z) == [x |-> x, y |-> y, z |-> z]

Texture(n) == [name |-> n]

\* a result of read_texture_image: Ok(image) with the image's data, or Err
Image(data) == [readable |-> TRUE, data |-> data]
Unreadable == [readable |-> FALSE, data |-> <<>>]

Face(k, vidx, tex) == [edge_list_index |-> k, vidx |-> vidx, tex |-> tex]

\* sequences over S of length 0..n
SeqUpTo(S, n) == UNION {[1..k -> S] : k \in 0..n}

IsPrefix(s, t) == Len(s) <= Len(t) /\ SubSeq(t, 1, Len(s)) = s

WellFormedFaces(fs) ==
    \A i, j \in 1..Len(fs) :
        fs[i].edge_list_index = fs[j].edge_list_index
            => IsPrefix(fs[i].vidx, fs[j].vidx) \/ IsPrefix(fs[j].vidx, fs[i].vidx)

Uniform102030 == <<10, 20, 30>>

\* two textures, one drawable and one ignored
WallAndSky == <<Texture(wall), Texture(sky1)>>

\* two vertices, in either order: distinct along X, equal along Y, one NaN along Z
OrderVertexLists ==
    {<<Vertex(0, 1, NaN), Vertex(1, 1, 0)>>, <<Vertex(1, 1, 0), Vertex(0, 1, NaN)>>}

OrderFacePool == {Face(k, vi, t) : k \in 1..2, vi \in {<<>>, <<1>>, <<2>>, <<1, 2>>}, t \in 1..2}

OrderLevels(max_faces) ==
    {[vertices |-> vs, faces |-> fs, textures |-> WallAndSky] :
        vs \in OrderVertexLists,
        fs \in {f \in SeqUpTo(OrderFacePool, max_faces) : WellFormedFaces(f)}}

-----------------------------------------------------------------------------
(* SpecOrder: filter_and_sort_faces(bsp, axis) called on a parsed level, as the
   benchmark does *)

InitOrder ==
    /\ pc = "order"
    /\ outcome = "running"
    /\ axis \in Axes
    /\ bsp \in OrderLevels(MaxFaces)
    /\ parses = TRUE
    /\ pvertices = <<>>
    /\ images = <<>>
    /\ color_per_tex_name = <<>>
    /\ filtered = <<>>
    /\ ordered = <<>>
    /\ stuff_to_draw = <<>>
    /\ polygons = <<>>
    /\ doc = NoDoc
    /\ saved = FALSE
    /\ name = <<>>
    /\ ignored = FALSE

\* the call of filter_and_sort_faces (line 68, and the benchmark's call)
OrderFaces(next) ==
    /\ pc = "order"
    /\ filtered' = filter_faces(bsp)
    /\ LET r == filter_and_sort_faces(bsp, axis)
       IN  \/ /\ r.ok
              /\ ordered' = r.faces
              /\ pc' = next
              /\ UNCHANGED outcome
           \/ /\ ~r.ok
              /\ pc' = "done"
              /\ outcome' = "panic"
              /\ UNCHANGED ordered
    /\ UNCHANGED <<axis, bsp, parses, pvertices, images, color_per_tex_name,
                   stuff_to_draw, polygons, doc, saved, name, ignored>>

NextOrder == OrderFaces("returned")

SpecOrder == InitOrder /\ [][NextOrder]_vars

-----------------------------------------------------------------------------
(* Spec: convert(r, filename) *)

Mixed == <<10, 20, 30, 11, 21, 30>>

ConvertVertexPool == {Vertex(1, 2, 0), Vertex(-3, NaN, 1), Vertex(NaN, -1, NaN)}

ConvertVertexLists == {<<>>} \cup [1..2 -> ConvertVertexPool]

ConvertFacePool(nv) ==
    {Face(k, vi, t) : k \in 1..2,
                      vi \in {w \in {<<>>, <<1>>, <<2>>, <<1, 2>>} : \A i \in 1..Len(w) : w[i] <= nv},
                      t \in 1..2}

ConvertRasters == {Uniform102030, Mixed}

ConvertLevels(max_faces) ==
    UNION {{[vertices |-> vs, faces |-> fs, textures |-> WallAndSky] :
               fs \in {f \in SeqUpTo(ConvertFacePool(Len(vs)), max_faces) : WellFormedFaces(f)}} :
           vs \in ConvertVertexLists}

Init ==
    /\ pc = "parse"
    /\ outcome = "running"
    /\ axis = "Z"
    /\ parses = FALSE
    /\ bsp = NoLevel
    /\ pvertices = <<>>
    /\ images = <<>>
    /\ color_per_tex_name = <<>>
    /\ filtered = <<>>
    /\ ordered = <<>>
    /\ stuff_to_draw = <<>>
    /\ polygons = <<>>
    /\ doc = NoDoc
    /\ saved = FALSE
    /\ name = <<>>
    /\ ignored = FALSE

\* line 26: BspFile::parse(r)?
Parse(levels) ==
    /\ pc = "parse"
    /\ \/ /\ \E level \in levels : bsp' = level
          /\ parses' = TRUE
          /\ pc' = "project"
          /\ UNCHANGED outcome
       \/ /\ pc' = "done"
          /\ outcome' = "ParseError"
          /\ UNCHANGED <<bsp, parses>>
    /\ UNCHANGED <<axis, pvertices, images, color_per_tex_name, filtered,
                   ordered, stuff_to_draw, polygons, doc, saved, name, ignored>>

\* lines 35-39
Project(next) ==
    /\ pc = "project"
    /\ pvertices' = project(bsp.vertices, axis)
    /\ pc' = next
    /\ UNCHANGED <<outcome, axis, bsp, parses, images, color_per_tex_name, filtered,
                   ordered, stuff_to_draw, polygons, doc, saved, name, ignored>>

\* the texture loop going on to the next texture when a fetch fails
SampleTexture_skipping_failures(next, rasters) ==
    /\ pc = "sample"
    /\ \/ /\ Len(images) = Len(bsp.textures)
          /\ pc' = next
          /\ UNCHANGED <<outcome, images, color_per_tex_name>>
       \/ /\ Len(images) < Len(bsp.textures)
          /\ images' = Append(images, Unreadable)
          /\ UNCHANGED <<pc, outcome, color_per_tex_name>>
       \/ /\ Len(images) < Len(bsp.textures)
          /\ \E data \in rasters :
                /\ images' = Append(images, Image(data))
                /\ color_per_tex_name' =
                       insert(color_per_tex_name, bsp.textures[Len(images) + 1].name,
                              average_color(data))
          /\ UNCHANGED <<pc, outcome>>
    /\ UNCHANGED <<axis, bsp, parses, pvertices, filtered, ordered, stuff_to_draw,
                   polygons, doc, saved, name, ignored>>

\* lines 44-63: one turn of the loop over bsp.textures, or its end
SampleTexture(next, rasters) ==
    /\ pc = "sample"
    /\ \/ /\ Len(images) = Len(bsp.textures)
          /\ pc' = next
          /\ UNCHANGED <<outcome, images, color_per_tex_name>>
       \/ /\ Len(images) < Len(bsp.textures)
          /\ images' = Append(images, Unreadable)
          /\ pc' = "done"
          /\ outcome' = "TextureFetchError"
          /\ UNCHANGED color_per_tex_name
       \/ /\ Len(images) < Len(bsp.textures)
          /\ \E data \in rasters :
                /\ images' = Append(images, Image(data))
                /\ color_per_tex_name' =
                       insert(color_per_tex_name, bsp.textures[Len(images) + 1].name,
                              average_color(data))
          /\ UNCHANGED <<pc, outcome>>
    /\ UNCHANGED <<axis, bsp, parses, pvertices, filtered, ordered, stuff_to_draw,
                   polygons, doc, saved, name, ignored>>

\* lines 69-93
BuildStuff(next) ==
    /\ pc = "build"
    /\ LET r == build_stuff(bsp, ordered, pvertices)
       IN  /\ stuff_to_draw' = r.items
           /\ pc' = IF r.ok THEN next ELSE "done"
           /\ outcome' = IF r.ok THEN outcome ELSE "panic"
    /\ UNCHANGED <<axis, bsp, parses, pvertices, images, color_per_tex_name, filtered,
                   ordered, polygons, doc, saved, name, ignored>>

\* lines 99-124
DrawPolygons(next) ==
    /\ pc = "draw"
    /\ polygons' = draw_polygons(stuff_to_draw, color_per_tex_name)
    /\ pc' = next
    /\ UNCHANGED <<outcome, axis, bsp, parses, pvertices, images, color_per_tex_name,
                   filtered, ordered, stuff_to_draw, doc, saved, name, ignored>>

\* lines 127-170
ComposeDoc ==
    /\ pc = "compose"
    /\ LET b == compute_bounds(pvertices)
       IN  \/ /\ b.ok
              /\ doc' = compose(viewbox_of(b.b), polygons)
              /\ pc' = "save"
              /\ UNCHANGED outcome
           \/ /\ ~b.ok
              /\ pc' = "done"
              /\ outcome' = "panic"
              /\ UNCHANGED doc
    /\ UNCHANGED <<axis, bsp, parses, pvertices, images, color_per_tex_name, filtered,
                   ordered, stuff_to_draw, polygons, saved, name, ignored>>

\* lines 172-181: svg::save(...)?, then Ok(())
Save ==
    /\ pc = "save"
    /\ \/ /\ saved' = TRUE
          /\ outcome' = "Ok"
       \/ /\ saved' = FALSE
          /\ outcome' = "SaveError"
    /\ pc' = "done"
    /\ UNCHANGED <<axis, bsp, parses, pvertices, images, color_per_tex_name, filtered,
                   ordered, stuff_to_draw, polygons, doc, name, ignored>>

Next ==
    \/ Parse(ConvertLevels(MaxConvertFaces))
    \/ Project("sample")
    \/ SampleTexture("order", ConvertRasters)
    \/ OrderFaces("build")
    \/ BuildStuff("draw")
    \/ DrawPolygons("compose")
    \/ ComposeDoc
    \/ Save

Spec == Init /\ [][Next]_vars

-----------------------------------------------------------------------------
(* SpecGeometry: the geometric steps of convert (projection, face order,
   StuffToDraw) as a function of the level and the ProjectionAxis *)

GeometryVertexPool == {Vertex(1, 2, 3), Vertex(-2, 0, NaN)}

GeometryFacePool ==
    {Face(k, vi, t) : k \in 1..2, vi \in {<<>>, <<1>>, <<1, 2>>, <<2, 1>>}, t \in 1..2}

GeometryLevels(max_faces) ==
    {[vertices |-> vs, faces |-> fs, textures |-> WallAndSky] :
        vs \in [1..2 -> GeometryVertexPool],
        fs \in {f \in SeqUpTo(GeometryFacePool, max_faces) : WellFormedFaces(f)}}

InitGeometry ==
    /\ pc = "project"
    /\ outcome = "running"
    /\ axis \in Axes
    /\ bsp \in GeometryLevels(MaxConvertFaces)
    /\ parses = TRUE
    /\ pvertices = <<>>
    /\ images = <<>>
    /\ color_per_tex_name = <<>>
    /\ filtered = <<>>
    /\ ordered = <<>>
    /\ stuff_to_draw = <<>>
    /\ polygons = <<>>
    /\ doc = NoDoc
    /\ saved = FALSE
    /\ name = <<>>
    /\ ignored = FALSE

NextGeometry ==
    \/ Project("order")
    \/ OrderFaces("build")
    \/ BuildStuff("returned")

SpecGeometry == InitGeometry /\ [][NextGeometry]_vars

-----------------------------------------------------------------------------
(* SpecPaint: the color sampling loop and the polygon loop of convert, as a
   function of the textures, their rasters and the StuffToDraw items *)

metal == <<"m", "e", "t", "a", "l">>
lava == <<"l", "a", "v", "a">>

TexelPool == {<<10, 20, 30>>, <<11, 22, 255>>, <<0, 1, 2>>}

RECURSIVE Flatten(_)
Flatten(texels) == IF texels = <<>> THEN <<>> ELSE Head(texels) \o Flatten(Tail(texels))

\* rasters of 1..MaxTexels whole texels
PaintRasters == {Flatten(t) : t \in SeqUpTo(TexelPool, MaxTexels) \ {<<>>}}

PaintLevels ==
    {[vertices |-> <<>>, faces |-> <<>>, textures |-> ts] :
        ts \in {<<Texture(wall)>>, <<Texture(wall), Texture(metal)>>}}

Item(n) == [points |-> <<<<0, 0>>, <<1, 0>>, <<1, 1>>>>, texture_name |-> n, max_z |-> 0, min_z |-> 0]

PaintItems == <<Item(wall), Item(lava), Item(metal)>>

InitPaint ==
    /\ pc = "sample"
    /\ outcome = "running"
    /\ axis = "Z"
    /\ bsp \in PaintLevels
    /\ parses = TRUE
    /\ pvertices = <<>>
    /\ images = <<>>
    /\ color_per_tex_name = <<>>
    /\ filtered = <<>>
    /\ ordered = <<>>
    /\ stuff_to_draw = PaintItems
    /\ polygons = <<>>
    /\ doc = NoDoc
    /\ saved = FALSE
    /\ name = <<>>
    /\ ignored = FALSE

NextPaint ==
    \/ SampleTexture("draw", PaintRasters)
    \/ DrawPolygons("returned")

SpecPaint == InitPaint /\ [][NextPaint]_vars

-----------------------------------------------------------------------------
(* SpecIgnore: is_ignored_texture(name) *)

CLIP == <<"C", "L", "I", "P">>

NameCores ==
    {clip, hint, trigger, n163, sky, light, tech, wood,
     wall, CLIP, metal, <<>>,
     <<"S", "k", "y">>, <<"s", "k">>, <<"l", "i", "g", "h">>, <<"1", "6">>,
     <<"w", "o", "d">>, <<"t", "e", "c">>}

Affixes == SeqUpTo({"1", "y"}, MaxAffix)

Names == {pre \o core \o post : pre \in Affixes, core \in NameCores, post \in Affixes}

InitIgnore ==
    /\ pc = "classify"
    /\ outcome = "running"
    /\ axis = "Z"
    /\ bsp = NoLevel
    /\ parses = FALSE
    /\ pvertices = <<>>
    /\ images = <<>>
    /\ color_per_tex_name = <<>>
    /\ filtered = <<>>
    /\ ordered = <<>>
    /\ stuff_to_draw = <<>>
    /\ polygons = <<>>
    /\ doc = NoDoc
    /\ saved = FALSE
    /\ name \in Names
    /\ ignored = FALSE

Classify ==
    /\ pc = "classify"
    /\ ignored' = is_ignored_texture(name)
    /\ pc' = "returned"
    /\ UNCHANGED <<outcome, axis, bsp, parses, pvertices, images, color_per_tex_name,
                   filtered, ordered, stuff_to_draw, polygons, doc, saved, name>>

NextIgnore == Classify

SpecIgnore == InitIgnore /\ [][NextIgnore]_vars

-----------------------------------------------------------------------------
(* Properties of filter_and_sort_faces *)

Returned == pc = "returned"

\* the coordinates of a face's own vertices along the axis, as a set
AxisValues(face) == {coord(bsp.vertices[face.vidx[i]], axis) : i \in 1..Len(face.vidx)}

AllNumbers(face) == AxisValues(face) # {} /\ NaN \notin AxisValues(face)

\* the true minimum of a face whose coordinates are all numbers
TrueMin(face) == CHOOSE m \in AxisValues(face) : \A n \in AxisValues(face) : m <= n

Count(s, e) == Cardinality({i \in 1..Len(s) : s[i] = e})

IsPermutation(s, t) ==
    /\ Len(s) = Len(t)
    /\ \A i \in 1..Len(s) : Count(s, s[i]) = Count(t, s[i])

\* positions of the level's faces whose texture is not ignored
KeptPositions == {i \in 1..Len(bsp.faces) : ~is_ignored_texture(bsp.textures[bsp.faces[i].tex].name)}

KthKept(k) == CHOOSE i \in KeptPositions : Cardinality({j \in KeptPositions : j <= i}) = k

\* C1: in the sequence filter_and_sort_faces returns, the true axis-minimum
\* of the face at position i is <= that of the face at position i + 1, for
\* every face set, faces that share an edge_list_index included.  (Stated for
\* the adjacent pairs whose coordinates are all numbers.)
C1_SortedByTrueMinimum ==
    Returned =>
        \A i \in 1..(Len(ordered) - 1) :
            (AllNumbers(ordered[i]) /\ AllNumbers(ordered[i + 1]))
                => TrueMin(ordered[i]) <= TrueMin(ordered[i + 1])

\* C2: filter_faces returns, in their original order, exactly the faces whose
\* texture is not ignored; what filter_and_sort_faces returns is a permutation
\* of it, so it holds no face with an ignored texture and loses or duplicates
\* no other face.
C2_FilterThenPermutation ==
    pc \in {"returned", "done"} =>
        /\ Len(filtered) = Cardinality(KeptPositions)
        /\ \A k \in 1..Len(filtered) : filtered[k] = bsp.faces[KthKept(k)]
        /\ Returned =>
              /\ IsPermutation(ordered, filtered)
              /\ \A i \in 1..Len(ordered) :
                     ~is_ignored_texture(bsp.textures[ordered[i].tex].name)

\* an ignored face stands between two drawable ones, and the sort moved a face
C2_Witness ==
    /\ Returned
    /\ Len(bsp.faces) = 3
    /\ is_ignored_texture(bsp.textures[bsp.faces[2].tex].name)
    /\ Len(ordered) = 2
    /\ ordered # filtered

Position(s, e) == CHOOSE i \in 1..Len(s) : s[i] = e

\* C10: the sort is stable: two faces of the filtered list with the same
\* axis-minimum keep their relative order in the ordered list.  (Stated for
\* faces that occur once in the filtered list and whose coordinates are all
\* numbers.)
C10_StableSort ==
    Returned =>
        \A i, j \in 1..Len(filtered) :
            (/\ i < j
             /\ Count(filtered, filtered[i]) = 1
             /\ Count(filtered, filtered[j]) = 1
             /\ AllNumbers(filtered[i]) /\ AllNumbers(filtered[j])
             /\ TrueMin(filtered[i]) = TrueMin(filtered[j]))
                => Position(ordered, filtered[i]) < Position(ordered, filtered[j])

-----------------------------------------------------------------------------
(* Properties of convert *)

Range(f) == {f[i] : i \in DOMAIN f}

TextureNames == {bsp.textures[i].name : i \in 1..Len(bsp.textures)}

\* the document was built: convert reached svg::save
Composed == pc = "save" \/ (pc = "done" /\ outcome \in {"Ok", "SaveError"})

\* C3: when parsing fails, or the fetch of any texture's raster fails, convert
\* returns that error and nothing was saved; the document is saved only after
\* the level was parsed and every texture was sampled.
C3_ErrorsAbortBeforeSave ==
    /\ saved =>
          /\ parses
          /\ Len(images) = Len(bsp.textures)
          /\ \A i \in 1..Len(images) : images[i].readable
          /\ DOMAIN color_per_tex_name = TextureNames
    /\ (pc # "parse" /\ ~parses) => (pc = "done" /\ outcome = "ParseError" /\ ~saved)
    /\ (\E i \in 1..Len(images) : ~images[i].readable)
          => (pc = "done" /\ outcome = "TextureFetchError" /\ ~saved)

\* the second texture's fetch failed after the first was sampled
C3_Witness ==
    /\ pc = "done"
    /\ outcome = "TextureFetchError"
    /\ Len(images) = 2
    /\ images[1].readable
    /\ ~images[2].readable
    /\ ~saved

\* every texture was sampled and the faces were filtered
Sampled == parses /\ Len(images) = Len(bsp.textures) /\ \A i \in 1..Len(images) : images[i].readable

\* a non-ignored face yields no vertices
EmptyFaceCase == \E i \in 1..Len(filtered) : Len(filtered[i].vidx) = 0

\* the sort compares a NaN minimum
NaNCompareCase ==
    /\ ~EmptyFaceCase
    /\ Len(filtered) >= 2
    /\ \E i \in 1..Len(filtered) :
          IsNaN(minimums_of(bsp, filtered, axis).map[filtered[i].edge_list_index])

\* C4: when a non-ignored face yields no vertices, or a coordinate compares
\* as unordered during the sort, the conversion ends with the failure value
\* DepthComputationError, not with a panic.
C4_DepthFailureIsReported ==
    (pc = "done" /\ Sampled /\ (EmptyFaceCase \/ NaNCompareCase))
        => outcome = "DepthComputationError"

\* the numbers of a set of f32 values, and their extremes
Numbers(S) == S \ {NaN}
LeastOf(S) == IF Numbers(S) = {} THEN NaN ELSE CHOOSE m \in Numbers(S) : \A n \in Numbers(S) : m <= n
GreatestOf(S) == IF Numbers(S) = {} THEN NaN ELSE CHOOSE m \in Numbers(S) : \A n \in Numbers(S) : m >= n

\* the projected coordinates of all the level's vertices, for the axis Z
AllU == {bsp.vertices[i].x : i \in 1..Len(bsp.vertices)}
AllV == {IF bsp.vertices[i].y = NaN THEN NaN ELSE 0 - bsp.vertices[i].y : i \in 1..Len(bsp.vertices)}

Lower(S) == IF LeastOf(S) = NaN THEN NaN ELSE LeastOf(S) - 100
Extent(S) == IF LeastOf(S) = NaN THEN NaN ELSE (GreatestOf(S) - LeastOf(S)) + 200

\* C6: the viewBox is (min_u - 100, min_v - 100, (max_u - min_u) + 200,
\* (max_v - min_v) + 200), the extremes taken over the projected points of all
\* the level's vertices, and the background rectangle has the viewBox's x, y,
\* width and height.
C6_ViewBoxOverAllVertices ==
    Composed =>
        /\ doc.viewBox = <<Lower(AllU), Lower(AllV), Extent(AllU), Extent(AllV)>>
        /\ <<doc.rect.x, doc.rect.y, doc.rect.width, doc.rect.height>> = doc.viewBox

\* a face is drawn, and a vertex no drawn face uses sets the least u
C6_Witness ==
    /\ Composed
    /\ Len(stuff_to_draw) > 0
    /\ \E i \in 1..Len(bsp.vertices) :
          /\ \A k \in 1..Len(ordered) : i \notin Range(ordered[k].vidx)
          /\ bsp.vertices[i].x # NaN
          /\ \A j \in 1..Len(bsp.vertices) :
                j # i => (bsp.vertices[j].x # NaN /\ bsp.vertices[j].x > bsp.vertices[i].x)
          /\ doc.viewBox[1] = bsp.vertices[i].x - 100

-----------------------------------------------------------------------------
(* Properties of the color sampling and of the polygons' fills *)

Texels(data) == Len(data) \div 3

\* the sum of channel c over the first n texels of a raster
RECURSIVE ChannelTotal(_, _, _)
ChannelTotal(data, c, n) ==
    IF n = 0 THEN 0 ELSE data[3 * (n - 1) + c] + ChannelTotal(data, c, n - 1)

\* e is the mean of channel c over all texels, truncated toward zero
IsTruncatedMean(e, data, c) ==
    /\ e \in 0..255
    /\ e * Texels(data) <= ChannelTotal(data, c, Texels(data))
    /\ ChannelTotal(data, c, Texels(data)) < (e + 1) * Texels(data)

IsUniform102030(data) ==
    \A t \in 1..Texels(data) :
        <<data[3 * t - 2], data[3 * t - 1], data[3 * t]>> = <<10, 20, 30>>

\* C5: the entry stored under a texture's name is, channel by channel, the
\* mean of the channel over all texels of its raster, truncated toward zero to
\* 0..255; a raster of texels (10, 20, 30) yields (10, 20, 30) and the fill
\* #0a141e.
C5_TruncatedMeanPerChannel ==
    \A i \in 1..Len(images) :
        images[i].readable =>
            LET n == bsp.textures[i].name
                e == color_per_tex_name[n]
            IN  /\ n \in DOMAIN color_per_tex_name
                /\ \A c \in 1..3 : IsTruncatedMean(e[c], images[i].data, c)
                /\ IsUniform102030(images[i].data) =>
                      /\ e = <<10, 20, 30>>
                      /\ pc = "returned" =>
                            \A k \in 1..Len(stuff_to_draw) :
                                stuff_to_draw[k].texture_name = n
                                    => polygons[k].fill = <<"#", "0", "a", "1", "4", "1", "e">>

\* one raster has a channel whose mean is not whole, another is uniform
\* (10, 20, 30) and its polygon is filled #0a141e
C5_Witness ==
    /\ pc = "returned"
    /\ Len(images) = 2
    /\ Texels(images[1].data) = 3
    /\ \E c \in 1..3 :
          color_per_tex_name[wall][c] * 3 < ChannelTotal(images[1].data, c, 3)
    /\ Texels(images[2].data) = 2
    /\ IsUniform102030(images[2].data)
    /\ polygons[3].fill = <<"#", "0", "a", "1", "4", "1", "e">>

LowerHexDigits == <<"0", "1", "2", "3", "4", "5", "6", "7", "8", "9", "a", "b", "c", "d", "e", "f">>

IsLowerHex(ch) == \E d \in 1..16 : LowerHexDigits[d] = ch

DigitValue(ch) == (CHOOSE d \in 1..16 : LowerHexDigits[d] = ch) - 1

\* text is #rrggbb, lowercase, and encodes the triple
Encodes(text, triple) ==
    /\ Len(text) = 7
    /\ text[1] = "#"
    /\ \A j \in 2..7 : IsLowerHex(text[j])
    /\ \A c \in 1..3 : 16 * DigitValue(text[2 * c]) + DigitValue(text[2 * c + 1]) = triple[c]

\* C7: an item whose texture name has no entry in the color table is filled
\* #ffffff and no error is raised; an item whose name has an entry is filled
\* with the entry's triple as lowercase #rrggbb.
C7_MissingColorIsWhite ==
    pc = "returned" =>
        /\ outcome = "running"
        /\ Len(polygons) = Len(stuff_to_draw)
        /\ \A k \in 1..Len(stuff_to_draw) :
              IF stuff_to_draw[k].texture_name \in DOMAIN color_per_tex_name
              THEN Encodes(polygons[k].fill, color_per_tex_name[stuff_to_draw[k].texture_name])
              ELSE polygons[k].fill = <<"#", "f", "f", "f", "f", "f", "f">>

\* one item's name has no entry, another's has one that is not white
C7_Witness ==
    /\ pc = "returned"
    /\ \E k \in 1..Len(stuff_to_draw) :
          /\ stuff_to_draw[k].texture_name \notin DOMAIN color_per_tex_name
          /\ polygons[k].fill = <<"#", "f", "f", "f", "f", "f", "f">>
    /\ \E k \in 1..Len(stuff_to_draw) :
          /\ stuff_to_draw[k].texture_name \in DOMAIN color_per_tex_name
          /\ polygons[k].fill = <<"#", "0", "b", "1", "6", "f", "f">>

-----------------------------------------------------------------------------
(* Properties of is_ignored_texture *)

ExactIgnored ==
    {<<"c", "l", "i", "p">>, <<"h", "i", "n", "t">>,
     <<"t", "r", "i", "g", "g", "e", "r">>, <<"1", "6", "3">>}

NeedleIgnored ==
    {<<"s", "k", "y">>, <<"l", "i", "g", "h", "t">>,
     <<"t", "e", "c", "h">>, <<"w", "o", "o", "d">>}

\* n occurs in s at some position
OccursIn(n, s) == \E i \in 1..Len(s) : \E j \in i..Len(s) : SubSeq(s, i, j) = n

ShouldIgnore(n) == n \in ExactIgnored \/ \E needle \in NeedleIgnored : OccursIn(needle, n)

\* C8: is_ignored_texture(name) is true exactly when name is one of clip,
\* hint, trigger, 163 or contains one of sky, light, tech, wood at any
\* position, case-sensitively: clip and sky1 are ignored, wall and CLIP are not.
C8_IgnoreRules ==
    /\ pc = "returned" => (ignored <=> ShouldIgnore(name))
    /\ (pc = "returned" /\ name \in {<<"c", "l", "i", "p">>, <<"s", "k", "y", "1">>}) => ignored
    /\ (pc = "returned" /\ name \in {<<"w", "a", "l", "l">>, <<"C", "L", "I", "P">>}) => ~ignored

\* a needle in the middle of a name that is no exact match
C8_Witness ==
    /\ pc = "returned"
    /\ ignored
    /\ name = <<"1", "s", "k", "y", "1">>

-----------------------------------------------------------------------------
(* Properties of the projection *)

Negated(a) == IF a = NaN THEN NaN ELSE 0 - a

Projected(v) ==
    IF axis = "X" THEN <<v.y, v.z>>
    ELSE IF axis = "Y" THEN <<v.x, v.z>>
    ELSE <<v.x, Negated(v.y)>>

\* C9: the projection maps (x, y, z) to (y, z) for X, (x, z) for Y and
\* (x, -y) for Z; the projected sequence is as long as the vertex list and
\* index-aligned with it, and point j of each item is the projection of the
\* vertex its face's j-th vertex index names.
C9_ProjectionIndexAligned ==
    /\ pc # "project" =>
          /\ Len(pvertices) = Len(bsp.vertices)
          /\ \A i \in 1..Len(bsp.vertices) : pvertices[i] = Projected(bsp.vertices[i])
    /\ pc = "returned" =>
          /\ Len(stuff_to_draw) = Len(ordered)
          /\ \A k \in 1..Len(ordered) :
                /\ Len(stuff_to_draw[k].points) = Len(ordered[k].vidx)
                /\ \A j \in 1..Len(ordered[k].vidx) :
                      stuff_to_draw[k].points[j] = Projected(bsp.vertices[ordered[k].vidx[j]])

\* axis Z, a face naming vertex 2 then vertex 1, a y that the flip changes
C9_Witness ==
    /\ pc = "returned"
    /\ axis = "Z"
    /\ Len(ordered) = 1
    /\ ordered[1].vidx = <<2, 1>>
    /\ bsp.vertices[1] = Vertex(1, 2, 3)
    /\ bsp.vertices[2] = Vertex(-2, 0, NaN)
    /\ stuff_to_draw[1].points = <<<<-2, 0>>, <<1, -2>>>>

====
